---- MODULE Spec2Model ----
(***************************************************************************)
(* Model of TokenizerRust/src/lib.rs: a process-wide                       *)
(* Mutex<Option<Tokenizer>> slot with the three C-callable operations      *)
(* tokenizer_initialize, tokenizer_encode and tokenizer_free, called by    *)
(* concurrently running host threads.                                      *)
(*                                                                         *)
(* Integers are scaled: c_int is CIntBits wide (32 in the build), so that  *)
(* lengths beyond the largest c_int are within reach of the model.         *)
(***************************************************************************)
EXTENDS Integers, Sequences, FiniteSets, TLC

\* ------------------------------------------------------------------ bounds
\* Width of c_int in the model (the build has 32).
CIntBits == 4

\* Host threads calling into the library.
NumThreads == 2
Threads == 1..NumThreads

CIntMax == 2^(CIntBits - 1) - 1
CIntMin == -(2^(CIntBits - 1))

\* `x as c_int`: keep the low CIntBits bits, read as two's complement.
AsCInt(x) ==
    LET m == x % (2^CIntBits)
    IN  IF m > CIntMax THEN m - 2^CIntBits ELSE m

Min(a, b) == IF a <= b THEN a ELSE b

\* ------------------------------------------------------------ return codes
InitErrNull      == -1
InitErrUtf8      == -2
InitErrLoad      == -3
InitErrLock      == -4
EncErrNull       == -1
EncErrUtf8       == -2
EncErrLock       == -5
EncErrNotInit    == -3
EncErrSegment    == -4

\* --------------------------------------------------------- C string inputs
\* A `*const c_char` argument: null, or the bytes before the terminator.
NullPtr == [null |-> TRUE, bytes |-> <<>>]
CStr(b) == [null |-> FALSE, bytes |-> b]

\* CStr::to_str: the bytes must be well-formed UTF-8 (1- to 4-byte forms).
RECURSIVE Utf8Valid(_)
Utf8Valid(b) ==
    IF b = <<>> THEN TRUE
    ELSE LET h == Head(b)
             n == IF h < 128 THEN 1
                  ELSE IF h >= 194 /\ h <= 223 THEN 2
                  ELSE IF h >= 224 /\ h <= 239 THEN 3
                  ELSE IF h >= 240 /\ h <= 244 THEN 4
                  ELSE 0
         IN  /\ n > 0
             /\ Len(b) >= n
             /\ \A i \in 2..n : b[i] >= 128 /\ b[i] <= 191
             /\ Utf8Valid(SubSeq(b, n + 1, Len(b)))

\* Paths handed to tokenizer_initialize.
PathM1      == <<49>>
PathM2      == <<50>>
PathMissing == <<51>>
BadBytes    == <<255>>
PathArgs == {NullPtr, CStr(BadBytes), CStr(PathMissing), CStr(PathM1), CStr(PathM2)}

\* Texts handed to tokenizer_encode: "ab", "z", and a run of 'a' whose id
\* sequence is longer than the largest c_int.
TextShort == <<97, 98>>
TextUnk   == <<122>>
TextLong  == [i \in 1..(CIntMax + 1) |-> 97]

\* The caller's array has BufCap cells; max_len is 0, 3 (less than, or
\* exactly, the ids of "ab") or the first length beyond the largest c_int.
BufCap == CIntMax + 2
Big    == CIntMax + 1

\* The (text, out_ids is null, max_len) triples of the encode calls.
EncArgs ==
    { <<NullPtr, FALSE, 3>>,
      <<CStr(TextShort), TRUE, 3>>,
      <<CStr(BadBytes), FALSE, 3>>,
      <<CStr(BadBytes), TRUE, 3>>,
      <<CStr(TextShort), FALSE, 0>>,
      <<CStr(TextShort), FALSE, 3>>,
      <<CStr(TextShort), FALSE, Big>>,
      <<CStr(TextUnk), FALSE, 3>>,
      <<CStr(TextLong), FALSE, 3>>,
      <<CStr(TextLong), FALSE, Big>> }

\* Content of a caller's array before the call.
Fill == CIntMin
BlankBuf == [i \in 1..BufCap |-> Fill]

\* -------------------------------------------------- the tokenizers library
None   == "None"
Models == {"M1", "M2"}

\* Tokenizer::from_file
FromFile(path) ==
    IF path = PathM1 THEN [ok |-> TRUE, t |-> "M1"]
    ELSE IF path = PathM2 THEN [ok |-> TRUE, t |-> "M2"]
    ELSE [ok |-> FALSE, t |-> None]

\* M1 maps 'a', 'b' and (as its unknown token) any other byte; M2 has no
\* unknown token and rejects a byte outside its vocabulary.
InVocab(m, byte) == m = "M1" \/ byte \in {97, 98}
Vocab(m, byte) ==
    IF m = "M1"
    THEN (IF byte = 97 THEN 5 ELSE IF byte = 98 THEN 6 ELSE 4)
    ELSE (IF byte = 97 THEN 7 ELSE 5)
Bos(m) == IF m = "M1" THEN <<1>> ELSE <<3>>
Eos(m) == IF m = "M1" THEN <<2>> ELSE <<>>

\* Tokenizer::encode(text, add_special_tokens)
LibEncode(m, text, special) ==
    IF \E i \in 1..Len(text) : ~InVocab(m, text[i])
    THEN [ok |-> FALSE, ids |-> <<>>]
    ELSE [ok |-> TRUE,
          ids |-> (IF special THEN Bos(m) ELSE <<>>)
                  \o [i \in 1..Len(text) |-> Vocab(m, text[i])]
                  \o (IF special THEN Eos(m) ELSE <<>>)]

\* ------------------------------------------------------------------- state
VARIABLES
    slot,       \* TOKENIZER's data: None or the installed tokenizer
    lock,       \* TOKENIZER's mutex: 0 when free, else the holding thread
    poisoned,   \* TOKENIZER's mutex poison flag
    pc,         \* where each thread is in its current call
    op,         \* the operation each thread is in
    arg,        \* path (initialize) or text (encode) argument
    outNull,    \* encode: out_ids is null
    maxLen,     \* encode: max_len
    tok,        \* initialize: constructed tokenizer; encode: the reference read
    ids,        \* encode: encoding.get_ids()
    buf,        \* encode: the caller's array behind out_ids
    ret,        \* the value the call returned
    kind,       \* the failure kind of the returning branch, "ok" otherwise
    nullDeref,  \* a null pointer has been read or written through
    everInit,   \* some tokenizer_initialize has returned 0
    hist        \* the last two slot mutations, in lock acquisition order

vars == <<slot, lock, poisoned, pc, op, arg, outNull, maxLen, tok, ids, buf,
          ret, kind, nullDeref, everInit, hist>>

Init ==
    /\ slot = None
    /\ lock = 0
    /\ poisoned = FALSE
    /\ pc = [t \in Threads |-> "idle"]
    /\ op = [t \in Threads |-> "none"]
    /\ arg = [t \in Threads |-> NullPtr]
    /\ outNull = [t \in Threads |-> FALSE]
    /\ maxLen = [t \in Threads |-> 0]
    /\ tok = [t \in Threads |-> None]
    /\ ids = [t \in Threads |-> <<>>]
    /\ buf = [t \in Threads |-> BlankBuf]
    /\ ret = [t \in Threads |-> 0]
    /\ kind = [t \in Threads |-> "ok"]
    /\ nullDeref = FALSE
    /\ everInit = FALSE
    /\ hist = <<"start", "start">>

\* What a mutation recorded in hist leaves in the slot.
Val(h) == IF h \in Models THEN h ELSE None

\* The call returns value r on the branch of failure kind k.
Finish(t, r, k) ==
    /\ pc' = [pc EXCEPT ![t] = "ret"]
    /\ ret' = [ret EXCEPT ![t] = r]
    /\ kind' = [kind EXCEPT ![t] = k]

\* ---------------------------------------------------- tokenizer_initialize
\* Variant of InitCall that takes the mutex before the file is loaded.
InitCallLockFirst(t, p) ==
    /\ pc[t] = "idle"
    /\ op' = [op EXCEPT ![t] = "initialize"]
    /\ arg' = [arg EXCEPT ![t] = p]
    /\ IF p.null
       THEN Finish(t, InitErrNull, "null") /\ UNCHANGED lock
       ELSE IF ~Utf8Valid(p.bytes)
       THEN Finish(t, InitErrUtf8, "utf8") /\ UNCHANGED lock
       ELSE /\ lock = 0
            /\ lock' = t
            /\ pc' = [pc EXCEPT ![t] = "init_load"]
            /\ UNCHANGED <<ret, kind>>
    /\ nullDeref' = (nullDeref \/ (p.null /\ pc'[t] # "ret"))
    /\ UNCHANGED <<slot, poisoned, outNull, maxLen, tok, ids, buf,
                   everInit, hist>>

\* lib.rs 11-20: null check, CStr::from_ptr, to_str.
InitCall(t, p) ==
    /\ pc[t] = "idle"
    /\ op' = [op EXCEPT ![t] = "initialize"]
    /\ arg' = [arg EXCEPT ![t] = p]
    /\ IF p.null THEN Finish(t, InitErrNull, "null")
       ELSE IF ~Utf8Valid(p.bytes) THEN Finish(t, InitErrUtf8, "utf8")
       ELSE /\ pc' = [pc EXCEPT ![t] = "init_load"]
            /\ UNCHANGED <<ret, kind>>
    /\ nullDeref' = (nullDeref \/ (p.null /\ pc'[t] # "ret"))
    /\ UNCHANGED <<slot, lock, poisoned, outNull, maxLen, tok, ids, buf,
                   everInit, hist>>

\* Variant of InitLoad that ignores a failed load and carries on with the
\* unfinished resource.
InitLoadIgnoreErr(t) ==
    /\ pc[t] = "init_load"
    /\ LET r == FromFile(arg[t].bytes)
       IN  tok' = [tok EXCEPT ![t] = IF r.ok THEN r.t ELSE "Partial"]
    /\ pc' = [pc EXCEPT ![t] = "init_lock"]
    /\ UNCHANGED <<slot, lock, poisoned, op, arg, outNull, maxLen, ids, buf,
                   ret, kind, nullDeref, everInit, hist>>

\* Variant of InitLoad that empties the slot when the load fails.
InitLoadClearsOnErr(t) ==
    /\ pc[t] = "init_load"
    /\ LET r == FromFile(arg[t].bytes)
       IN  IF r.ok
           THEN /\ tok' = [tok EXCEPT ![t] = r.t]
                /\ pc' = [pc EXCEPT ![t] = "init_lock"]
                /\ UNCHANGED <<ret, kind, slot>>
           ELSE /\ Finish(t, InitErrLoad, "load")
                /\ slot' = None
                /\ UNCHANGED tok
    /\ UNCHANGED <<lock, poisoned, op, arg, outNull, maxLen, ids, buf,
                   nullDeref, everInit, hist>>

\* lib.rs 22-25: Tokenizer::from_file, before the lock is taken.
InitLoad(t) ==
    /\ pc[t] = "init_load"
    /\ LET r == FromFile(arg[t].bytes)
       IN  IF r.ok
           THEN /\ tok' = [tok EXCEPT ![t] = r.t]
                /\ pc' = [pc EXCEPT ![t] = "init_lock"]
                /\ UNCHANGED <<ret, kind>>
           ELSE /\ Finish(t, InitErrLoad, "load")
                /\ UNCHANGED tok
    /\ UNCHANGED <<slot, lock, poisoned, op, arg, outNull, maxLen, ids, buf,
                   nullDeref, everInit, hist>>

\* Variant of InitLock that does not wait for the mutex to be free.
InitLockNoWait(t) ==
    /\ pc[t] = "init_lock"
    /\ lock' = t
    /\ hist' = <<hist[2], tok[t]>>
    /\ pc' = [pc EXCEPT ![t] = "init_install"]
    /\ UNCHANGED <<slot, poisoned, op, arg, outNull, maxLen, tok, ids, buf,
                   ret, kind, nullDeref, everInit>>

\* lib.rs 27-28, 32: TOKENIZER.lock(); a poisoned mutex yields Err, whose
\* guard is dropped at once.
InitLock(t) ==
    /\ pc[t] = "init_lock"
    /\ lock = 0
    /\ IF poisoned
       THEN /\ Finish(t, InitErrLock, "lock")
            /\ UNCHANGED <<lock, hist>>
       ELSE /\ lock' = t
            /\ hist' = <<hist[2], tok[t]>>
            /\ pc' = [pc EXCEPT ![t] = "init_install"]
            /\ UNCHANGED <<ret, kind>>
    /\ UNCHANGED <<slot, poisoned, op, arg, outNull, maxLen, tok, ids, buf,
                   nullDeref, everInit>>

\* Variant of InitInstall that installs only into an empty slot (a
\* first-initialization-only singleton).
InitInstallKeep(t) ==
    /\ pc[t] = "init_install"
    /\ slot' = IF slot = None THEN tok[t] ELSE slot
    /\ lock' = 0
    /\ everInit' = TRUE
    /\ Finish(t, 0, "ok")
    /\ UNCHANGED <<poisoned, op, arg, outNull, maxLen, tok, ids, buf,
                   nullDeref, hist>>

\* lib.rs 29-31: *guard = Some(tokenizer); 0; the guard is dropped.
InitInstall(t) ==
    /\ pc[t] = "init_install"
    /\ slot' = tok[t]
    /\ lock' = 0
    /\ everInit' = TRUE
    /\ Finish(t, 0, "ok")
    /\ UNCHANGED <<poisoned, op, arg, outNull, maxLen, tok, ids, buf,
                   nullDeref, hist>>

\* -------------------------------------------------------- tokenizer_encode
\* Variant of EncCall that checks text for null but not out_ids.
EncCallNoOutCheck(t, x, o, m) ==
    /\ pc[t] = "idle"
    /\ op' = [op EXCEPT ![t] = "encode"]
    /\ arg' = [arg EXCEPT ![t] = x]
    /\ outNull' = [outNull EXCEPT ![t] = o]
    /\ maxLen' = [maxLen EXCEPT ![t] = m]
    /\ IF x.null THEN Finish(t, EncErrNull, "null")
       ELSE IF ~Utf8Valid(x.bytes) THEN Finish(t, EncErrUtf8, "utf8")
       ELSE /\ pc' = [pc EXCEPT ![t] = "enc_lock"]
            /\ UNCHANGED <<ret, kind>>
    /\ UNCHANGED <<slot, lock, poisoned, tok, ids, buf, nullDeref, everInit,
                   hist>>

\* Variant of EncCall that decodes text before it looks at out_ids.
EncCallUtf8First(t, x, o, m) ==
    /\ pc[t] = "idle"
    /\ op' = [op EXCEPT ![t] = "encode"]
    /\ arg' = [arg EXCEPT ![t] = x]
    /\ outNull' = [outNull EXCEPT ![t] = o]
    /\ maxLen' = [maxLen EXCEPT ![t] = m]
    /\ IF x.null THEN Finish(t, EncErrNull, "null")
       ELSE IF ~Utf8Valid(x.bytes) THEN Finish(t, EncErrUtf8, "utf8")
       ELSE IF o THEN Finish(t, EncErrNull, "null")
       ELSE /\ pc' = [pc EXCEPT ![t] = "enc_lock"]
            /\ UNCHANGED <<ret, kind>>
    /\ UNCHANGED <<slot, lock, poisoned, tok, ids, buf, nullDeref, everInit,
                   hist>>

\* lib.rs 39-52: null checks, CStr::from_ptr, to_str.
EncCall(t, x, o, m) ==
    /\ pc[t] = "idle"
    /\ op' = [op EXCEPT ![t] = "encode"]
    /\ arg' = [arg EXCEPT ![t] = x]
    /\ outNull' = [outNull EXCEPT ![t] = o]
    /\ maxLen' = [maxLen EXCEPT ![t] = m]
    /\ IF x.null \/ o THEN Finish(t, EncErrNull, "null")
       ELSE IF ~Utf8Valid(x.bytes) THEN Finish(t, EncErrUtf8, "utf8")
       ELSE /\ pc' = [pc EXCEPT ![t] = "enc_lock"]
            /\ UNCHANGED <<ret, kind>>
    /\ nullDeref' = (nullDeref \/ (x.null /\ pc'[t] # "ret"))
    /\ UNCHANGED <<slot, lock, poisoned, tok, ids, buf, everInit, hist>>

\* lib.rs 54-57: TOKENIZER.lock().
EncLock(t) ==
    /\ pc[t] = "enc_lock"
    /\ lock = 0
    /\ IF poisoned
       THEN /\ Finish(t, EncErrLock, "lock")
            /\ UNCHANGED lock
       ELSE /\ lock' = t
            /\ pc' = [pc EXCEPT ![t] = "enc_read"]
            /\ UNCHANGED <<ret, kind>>
    /\ UNCHANGED <<slot, poisoned, op, arg, outNull, maxLen, tok, ids, buf,
                   nullDeref, everInit, hist>>

\* Variant of EncRead that reports an empty slot as an empty encoding.
EncReadZero(t) ==
    /\ pc[t] = "enc_read"
    /\ IF slot = None
       THEN /\ Finish(t, 0, "ok")
            /\ lock' = 0
            /\ UNCHANGED tok
       ELSE /\ tok' = [tok EXCEPT ![t] = slot]
            /\ pc' = [pc EXCEPT ![t] = "enc_segment"]
            /\ UNCHANGED <<lock, ret, kind>>
    /\ UNCHANGED <<slot, poisoned, op, arg, outNull, maxLen, ids, buf,
                   nullDeref, everInit, hist>>

\* Variant of EncRead whose "not initialized" exit keeps the guard.
EncReadLeak(t) ==
    /\ pc[t] = "enc_read"
    /\ IF slot = None
       THEN /\ Finish(t, EncErrNotInit, "notinit")
            /\ UNCHANGED <<lock, tok>>
       ELSE /\ tok' = [tok EXCEPT ![t] = slot]
            /\ pc' = [pc EXCEPT ![t] = "enc_segment"]
            /\ UNCHANGED <<lock, ret, kind>>
    /\ UNCHANGED <<slot, poisoned, op, arg, outNull, maxLen, ids, buf,
                   nullDeref, everInit, hist>>

\* Variant of EncRead that drops the guard once it has looked at the slot.
EncReadEarlyRelease(t) ==
    /\ pc[t] = "enc_read"
    /\ lock' = 0
    /\ IF slot = None
       THEN /\ Finish(t, EncErrNotInit, "notinit")
            /\ UNCHANGED tok
       ELSE /\ tok' = [tok EXCEPT ![t] = slot]
            /\ pc' = [pc EXCEPT ![t] = "enc_segment"]
            /\ UNCHANGED <<ret, kind>>
    /\ UNCHANGED <<slot, poisoned, op, arg, outNull, maxLen, ids, buf,
                   nullDeref, everInit, hist>>

\* lib.rs 59-62: guard.as_ref(); on None the guard is dropped by the return.
EncRead(t) ==
    /\ pc[t] = "enc_read"
    /\ IF slot = None
       THEN /\ Finish(t, EncErrNotInit, "notinit")
            /\ lock' = 0
            /\ UNCHANGED tok
       ELSE /\ tok' = [tok EXCEPT ![t] = slot]
            /\ pc' = [pc EXCEPT ![t] = "enc_segment"]
            /\ UNCHANGED <<lock, ret, kind>>
    /\ UNCHANGED <<slot, poisoned, op, arg, outNull, maxLen, ids, buf,
                   nullDeref, everInit, hist>>

\* Variant of EncSegment that encodes with add_special_tokens = false.
EncSegmentNoSpecial(t) ==
    /\ pc[t] = "enc_segment"
    /\ LET e == IF slot = None
                THEN [ok |-> FALSE, ids |-> <<>>]
                ELSE LibEncode(slot, arg[t].bytes, FALSE)
       IN  IF e.ok
           THEN /\ ids' = [ids EXCEPT ![t] = e.ids]
                /\ pc' = [pc EXCEPT ![t] = "enc_copy"]
                /\ UNCHANGED <<lock, ret, kind>>
           ELSE /\ Finish(t, EncErrSegment, "segment")
                /\ lock' = 0
                /\ UNCHANGED ids
    /\ UNCHANGED <<slot, poisoned, op, arg, outNull, maxLen, tok, buf,
                   nullDeref, everInit, hist>>

\* lib.rs 64-70: tokenizer.encode(text_str, true) through the reference
\* into the slot, then encoding.get_ids(). (The slot cannot be empty here
\* while the guard is held; an empty slot is read as a failed encoding.)
EncSegment(t) ==
    /\ pc[t] = "enc_segment"
    /\ LET e == IF slot = None
                THEN [ok |-> FALSE, ids |-> <<>>]
                ELSE LibEncode(slot, arg[t].bytes, TRUE)
       IN  IF e.ok
           THEN /\ ids' = [ids EXCEPT ![t] = e.ids]
                /\ pc' = [pc EXCEPT ![t] = "enc_copy"]
                /\ UNCHANGED <<lock, ret, kind>>
           ELSE /\ Finish(t, EncErrSegment, "segment")
                /\ lock' = 0
                /\ UNCHANGED ids
    /\ UNCHANGED <<slot, poisoned, op, arg, outNull, maxLen, tok, buf,
                   nullDeref, everInit, hist>>

\* Variant of EncCopy that returns the length of the whole encoding
\* instead of the number of ids written.
EncCopyReturnsTotal(t) ==
    /\ pc[t] = "enc_copy"
    /\ LET len == Min(Len(ids[t]), maxLen[t])
       IN  /\ buf' = [buf EXCEPT ![t] =
                        [i \in 1..BufCap |->
                            IF i <= len /\ ~outNull[t]
                            THEN AsCInt(ids[t][i]) ELSE buf[t][i]]]
           /\ nullDeref' = (nullDeref \/ (outNull[t] /\ len > 0))
           /\ Finish(t, AsCInt(Len(ids[t])), "ok")
    /\ lock' = 0
    /\ UNCHANGED <<slot, poisoned, op, arg, outNull, maxLen, tok, ids,
                   everInit, hist>>

\* lib.rs 71-80: len = ids.len().min(max_len); the copy loop; len as c_int;
\* the guard is dropped by the return.
EncCopy(t) ==
    /\ pc[t] = "enc_copy"
    /\ LET len == Min(Len(ids[t]), maxLen[t])
       IN  /\ buf' = [buf EXCEPT ![t] =
                        [i \in 1..BufCap |->
                            IF i <= len /\ ~outNull[t]
                            THEN AsCInt(ids[t][i]) ELSE buf[t][i]]]
           /\ nullDeref' = (nullDeref \/ (outNull[t] /\ len > 0))
           /\ Finish(t, AsCInt(len), "ok")
    /\ lock' = 0
    /\ UNCHANGED <<slot, poisoned, op, arg, outNull, maxLen, tok, ids,
                   everInit, hist>>

\* ---------------------------------------------------------- tokenizer_free
\* lib.rs 84: the call is entered; it has no argument to check.
FreeCall(t) ==
    /\ pc[t] = "idle"
    /\ op' = [op EXCEPT ![t] = "free"]
    /\ pc' = [pc EXCEPT ![t] = "free_lock"]
    /\ UNCHANGED <<slot, lock, poisoned, arg, outNull, maxLen, tok, ids, buf,
                   ret, kind, nullDeref, everInit, hist>>

\* Variant of FreeLock that unwraps the lock result: on a poisoned mutex
\* the call panics instead of returning.
FreeLockUnwrap(t) ==
    /\ pc[t] = "free_lock"
    /\ lock = 0
    /\ IF poisoned
       THEN /\ pc' = [pc EXCEPT ![t] = "dead"]
            /\ UNCHANGED <<lock, hist>>
       ELSE /\ lock' = t
            /\ hist' = <<hist[2], "free">>
            /\ pc' = [pc EXCEPT ![t] = "free_clear"]
    /\ UNCHANGED <<slot, poisoned, op, arg, outNull, maxLen, tok, ids, buf,
                   ret, kind, nullDeref, everInit>>

\* lib.rs 85: if let Ok(mut guard) = TOKENIZER.lock(); a poisoned mutex
\* makes the call return without touching the slot.
FreeLock(t) ==
    /\ pc[t] = "free_lock"
    /\ lock = 0
    /\ IF poisoned
       THEN /\ Finish(t, 0, "ok")
            /\ UNCHANGED <<lock, hist>>
       ELSE /\ lock' = t
            /\ hist' = <<hist[2], "free">>
            /\ pc' = [pc EXCEPT ![t] = "free_clear"]
            /\ UNCHANGED <<ret, kind>>
    /\ UNCHANGED <<slot, poisoned, op, arg, outNull, maxLen, tok, ids, buf,
                   nullDeref, everInit>>

\* lib.rs 86-88: *guard = None; the guard is dropped.
FreeClear(t) ==
    /\ pc[t] = "free_clear"
    /\ slot' = None
    /\ lock' = 0
    /\ Finish(t, 0, "ok")
    /\ UNCHANGED <<poisoned, op, arg, outNull, maxLen, tok, ids, buf,
                   nullDeref, everInit, hist>>

\* ------------------------------------------------------------- environment
\* The caller has its result and prepares its next call.
Return(t) ==
    /\ pc[t] = "ret"
    /\ pc' = [pc EXCEPT ![t] = "idle"]
    /\ op' = [op EXCEPT ![t] = "none"]
    /\ arg' = [arg EXCEPT ![t] = NullPtr]
    /\ outNull' = [outNull EXCEPT ![t] = FALSE]
    /\ maxLen' = [maxLen EXCEPT ![t] = 0]
    /\ tok' = [tok EXCEPT ![t] = None]
    /\ ids' = [ids EXCEPT ![t] = <<>>]
    /\ buf' = [buf EXCEPT ![t] = BlankBuf]
    /\ ret' = [ret EXCEPT ![t] = 0]
    /\ kind' = [kind EXCEPT ![t] = "ok"]
    /\ UNCHANGED <<slot, lock, poisoned, nullDeref, everInit, hist>>

\* The segmentation routine panics while the guard is held: the guard is
\* dropped during unwinding, which poisons the mutex, and the thread is lost.
Panic(t) ==
    /\ pc[t] = "enc_segment"
    /\ lock = t
    /\ poisoned' = TRUE
    /\ lock' = 0
    /\ pc' = [pc EXCEPT ![t] = "dead"]
    /\ UNCHANGED <<slot, op, arg, outNull, maxLen, tok, ids, buf, ret, kind,
                   nullDeref, everInit, hist>>

Next ==
    \/ \E t \in Threads, p \in PathArgs : InitCall(t, p)
    \/ \E t \in Threads : InitLoad(t)
    \/ \E t \in Threads : InitLock(t)
    \/ \E t \in Threads : InitInstall(t)
    \/ \E t \in Threads, a \in EncArgs : EncCall(t, a[1], a[2], a[3])
    \/ \E t \in Threads : EncLock(t)
    \/ \E t \in Threads : EncRead(t)
    \/ \E t \in Threads : EncSegment(t)
    \/ \E t \in Threads : EncCopy(t)
    \/ \E t \in Threads : FreeCall(t)
    \/ \E t \in Threads : FreeLock(t)
    \/ \E t \in Threads : FreeClear(t)
    \/ \E t \in Threads : Return(t)

Spec == Init /\ [][Next]_vars

\* The same program in a host that survives a panic of the library.
NextP ==
    \/ Next
    \/ \E t \in Threads : Panic(t)

SpecP == Init /\ [][NextP]_vars

\* Fair scheduling: a thread inside a call keeps running (its next step
\* that needs no lock is taken), and a thread blocked in TOKENIZER.lock()
\* that finds the mutex free again and again gets it in the end. Callers
\* are not obliged to make calls or to pick up results.
Running(t) ==
    \/ InitLoad(t) \/ InitInstall(t)
    \/ EncRead(t) \/ EncSegment(t) \/ EncCopy(t)
    \/ FreeClear(t)
Acquire(t) == InitLock(t) \/ EncLock(t) \/ FreeLock(t)
Fairness == \A t \in Threads : WF_vars(Running(t)) /\ SF_vars(Acquire(t))

SpecFair == Init /\ [][Next]_vars /\ Fairness

TypeOK ==
    /\ slot \in Models \cup {None}
    /\ lock \in Threads \cup {0}
    /\ poisoned \in BOOLEAN
    /\ \A t \in Threads : ret[t] \in CIntMin..CIntMax

\* The calls of hosts that keep lifecycle calls and encode calls apart: no
\* initialize or free runs while an encode call is under way or its result
\* is still being looked at, and no encode starts during a lifecycle call.
NoEncode == \A u \in Threads : op[u] # "encode"
NoLifecycle ==
    \A u \in Threads :
        pc[u] \notin {"init_load", "init_lock", "init_install",
                      "free_lock", "free_clear"}

NextStable ==
    \/ \E t \in Threads, p \in PathArgs : NoEncode /\ InitCall(t, p)
    \/ \E t \in Threads : InitLoad(t)
    \/ \E t \in Threads : InitLock(t)
    \/ \E t \in Threads : InitInstall(t)
    \/ \E t \in Threads, a \in EncArgs :
          NoLifecycle /\ EncCall(t, a[1], a[2], a[3])
    \/ \E t \in Threads : EncLock(t)
    \/ \E t \in Threads : EncRead(t)
    \/ \E t \in Threads : EncSegment(t)
    \/ \E t \in Threads : EncCopy(t)
    \/ \E t \in Threads : NoEncode /\ FreeCall(t)
    \/ \E t \in Threads : FreeLock(t)
    \/ \E t \in Threads : FreeClear(t)
    \/ \E t \in Threads : Return(t)

SpecStable == Init /\ [][NextStable]_vars

\* ============================================================== properties
Returned(t, o) == pc[t] = "ret" /\ op[t] = o

\* The call of thread t is an encode with non-null, UTF-8-valid arguments.
ValidEnc(t) ==
    /\ op[t] = "encode"
    /\ ~arg[t].null
    /\ ~outNull[t]
    /\ Utf8Valid(arg[t].bytes)

\* The full id sequence of resource m for the text.
FullIds(m, text) == LibEncode(m, text, TRUE).ids

\* A caller's array whose first n cells hold the first n ids of S.
Written(S, n) == [i \in 1..BufCap |-> IF i <= n THEN S[i] ELSE Fill]

Critical == {"init_install", "enc_read", "enc_segment", "enc_copy", "free_clear"}
Mutating == {"init_install", "free_clear"}

\* C1: a successful encode writes exactly min(|S|, m) ids, returns that
\* count, a value in [0, m], and the cells written are the first ids of S in
\* order (nothing is written and 0 is returned when m = 0).
C1_EncodeWritesPrefixAndReturnsCount ==
    \A t \in Threads :
        (Returned(t, "encode") /\ kind[t] = "ok") =>
            LET S == FullIds(tok[t], arg[t].bytes)
                n == Min(Len(S), maxLen[t])
            IN  /\ ret[t] = n
                /\ ret[t] \in 0..maxLen[t]
                /\ buf[t] = Written(S, n)

\* C2: as long as no initialize has succeeded, every encode call with
\* non-null, UTF-8-valid arguments returns the "not initialized" code and
\* leaves every cell of the caller's array as it was.
C2_EncodeBeforeInitNotInitialized ==
    ~everInit =>
        \A t \in Threads :
            /\ pc[t] \notin {"enc_segment", "enc_copy"}
            /\ (Returned(t, "encode") /\ ValidEnc(t)) =>
                   /\ ret[t] = EncErrNotInit
                   /\ kind[t] = "notinit"
                   /\ buf[t] = BlankBuf

C2_Witness ==
    /\ ~everInit
    /\ \E t \in Threads :
          /\ Returned(t, "encode")
          /\ ValidEnc(t)
          /\ ret[t] = EncErrNotInit

\* C3: an encode that reads the slot when the latest mutation is a free
\* returns the "not initialized" code; an encode that completes when the
\* latest mutations are a free and then a successful initialize(p) uses the
\* model from p and returns a value >= 0.
C3_FreeThenEncodeThenReinit ==
    [][\A t \in Threads :
          /\ (pc[t] = "enc_read" /\ pc'[t] # "enc_read" /\ hist[2] = "free") =>
                 (pc'[t] = "ret" /\ ret'[t] = EncErrNotInit)
          /\ (pc[t] = "enc_copy" /\ pc'[t] = "ret"
                 /\ hist[1] = "free" /\ hist[2] \in Models) =>
                 (tok[t] = hist[2] /\ ret'[t] >= 0)]_vars

\* C4: when the latest two mutations are a successful initialize(p1) and
\* then a successful initialize(p2), an encode computes its ids with the
\* model from p2.
C4_ReinitializeOverwrites ==
    \A t \in Threads :
        (pc[t] \in {"enc_segment", "enc_copy"}
            /\ hist[1] \in Models /\ hist[2] \in Models) =>
            /\ tok[t] = hist[2]
            /\ pc[t] = "enc_copy" => ids[t] = FullIds(hist[2], arg[t].bytes)

C4_Witness ==
    \E t \in Threads :
        /\ pc[t] = "enc_copy"
        /\ hist = <<"M1", "M2">>
        /\ ids[t] = FullIds("M2", arg[t].bytes)
        /\ ids[t] # FullIds("M1", arg[t].bytes)

\* C5: the slot holds no resource or one fully constructed resource; a
\* resource reaches the installing step only after its construction has
\* completed and the installing thread holds the lock; an encode never
\* works with anything but a fully constructed resource.
C5_SlotNeverPartial ==
    /\ slot \in Models \cup {None}
    /\ \A t \in Threads :
          /\ pc[t] \in {"init_lock", "init_install"} => tok[t] \in Models
          /\ pc[t] = "init_install" => lock = t
          /\ pc[t] \in {"enc_segment", "enc_copy"} =>
                 (tok[t] \in Models /\ tok[t] = slot)

C5_Witness ==
    /\ slot \in Models
    /\ \E t, u \in Threads :
          /\ Returned(t, "initialize")
          /\ ret[t] = 0
          /\ tok[t] = slot
          /\ pc[u] = "enc_segment"
          /\ tok[u] = slot

\* C6: a call with a null path, text or out_ids returns the null-argument
\* code in its first step, whatever the slot and the lock are: it never
\* takes the lock, changes neither slot nor array, and no null pointer is
\* read or written through.
NullCall(t) ==
    \/ op'[t] = "initialize" /\ arg'[t].null
    \/ op'[t] = "encode" /\ (arg'[t].null \/ outNull'[t])

C6_NullArgRejectedFirst ==
    [][\A t \in Threads :
          (pc[t] = "idle" /\ pc'[t] # "idle" /\ NullCall(t)) =>
              /\ pc'[t] = "ret"
              /\ ret'[t] = EncErrNull
              /\ ret'[t] = InitErrNull
              /\ kind'[t] = "null"
              /\ slot' = slot
              /\ lock' = lock
              /\ poisoned' = poisoned
              /\ buf' = buf
              /\ ~nullDeref']_vars

C6_Witness ==
    /\ poisoned
    /\ slot \in Models
    /\ ~nullDeref
    /\ \E t \in Threads :
          /\ Returned(t, "encode")
          /\ outNull[t]
          /\ ~arg[t].null
          /\ ret[t] = EncErrNull
          /\ buf[t] = BlankBuf

\* C7: at most one thread is between taking and releasing the lock; the
\* slot holds what the latest mutation in lock order wrote (what the one
\* before it wrote while the latest still holds the lock, about to write);
\* an encode holding the lock works with the latest mutation's resource.
C7_MutationsOrderedByLock ==
    /\ \A a, b \in Threads :
          (a # b) => ~(pc[a] \in Critical /\ pc[b] \in Critical)
    /\ \A t \in Threads : (pc[t] \in Critical) <=> (lock = t)
    /\ (\E t \in Threads : pc[t] \in Mutating) => slot = Val(hist[1])
    /\ (\A t \in Threads : pc[t] \notin Mutating) => slot = Val(hist[2])
    /\ \A t \in Threads :
          pc[t] \in {"enc_segment", "enc_copy"} => tok[t] = Val(hist[2])

C7_Witness ==
    \E a, b \in Threads :
        /\ a # b
        /\ Returned(a, "initialize") /\ ret[a] = 0
        /\ Returned(b, "initialize") /\ ret[b] = 0
        /\ tok[a] # tok[b]
        /\ hist = <<tok[a], tok[b]>>
        /\ slot = tok[b]

\* The result of tokenizer_encode run alone against slot content m.
Solo(m, x, o, n) ==
    IF x.null \/ o THEN [ret |-> EncErrNull, buf |-> BlankBuf]
    ELSE IF ~Utf8Valid(x.bytes) THEN [ret |-> EncErrUtf8, buf |-> BlankBuf]
    ELSE IF m = None THEN [ret |-> EncErrNotInit, buf |-> BlankBuf]
    ELSE LET e == LibEncode(m, x.bytes, TRUE)
             len == Min(Len(e.ids), n)
         IN  IF ~e.ok THEN [ret |-> EncErrSegment, buf |-> BlankBuf]
             ELSE [ret |-> AsCInt(len),
                   buf |-> [i \in 1..BufCap |->
                              IF i <= len THEN AsCInt(e.ids[i]) ELSE Fill]]

\* C8: while no initialize or free runs, every encode call, whatever other
\* encode calls run at the same time, returns the count and leaves the array
\* that the call gives when run alone on the same text and capacity.
C8_ConcurrentEncodesAsAlone ==
    \A t \in Threads :
        Returned(t, "encode") =>
            [ret |-> ret[t], buf |-> buf[t]]
                = Solo(slot, arg[t], outNull[t], maxLen[t])

C8_Witness ==
    \E a, b \in Threads :
        /\ a # b
        /\ Returned(a, "encode") /\ kind[a] = "ok" /\ ret[a] > 0
        /\ pc[b] = "enc_copy"
        /\ arg[a] # arg[b]

\* C9: initialize on a path to a well-formed model file returns 0, and an
\* encode with valid arguments that finds that resource installed (on a text
\* the resource can segment) returns a value >= 0.
C9_InitThenEncodeSucceeds ==
    \A t \in Threads :
        /\ (Returned(t, "initialize") /\ ~arg[t].null
               /\ Utf8Valid(arg[t].bytes) /\ FromFile(arg[t].bytes).ok) =>
               ret[t] = 0
        /\ (Returned(t, "encode") /\ ValidEnc(t)
               /\ tok[t] \in Models /\ kind[t] # "segment") =>
               ret[t] >= 0

\* C10: a negative value returned by initialize or encode identifies one
\* failure kind, and each failure kind is reported with one value.
C10_ErrorCodesIdentifyKinds ==
    \A a, b \in Threads :
        (pc[a] = "ret" /\ pc[b] = "ret"
            /\ kind[a] # "ok" /\ kind[b] # "ok") =>
            ((ret[a] = ret[b]) <=> (kind[a] = kind[b]))

\* C11: on a poisoned lock, initialize and encode (with valid arguments)
\* return a "lock unusable" code that no other failure returns, and go no
\* further: nothing is installed, no resource is read, nothing is written.
LockCodes == {InitErrLock, EncErrLock}

C11_PoisonedLockDedicatedCode ==
    \A t \in Threads :
        /\ (pc[t] = "ret" /\ kind[t] # "ok") =>
               ((ret[t] \in LockCodes) <=> (kind[t] = "lock"))
        /\ (pc[t] = "ret" /\ kind[t] = "lock") =>
               (poisoned /\ lock # t /\ buf[t] = BlankBuf
                   /\ (op[t] = "encode" => tok[t] = None))

\* C12: the sign of encode's return value tells success from failure: on
\* success it is the number of ids written, >= 0 and <= max_len; on failure
\* it is negative.
C12_ReturnSignDiscriminates ==
    \A t \in Threads :
        Returned(t, "encode") =>
            IF kind[t] = "ok"
            THEN /\ ret[t] >= 0
                 /\ ret[t] <= maxLen[t]
                 /\ ret[t] = Cardinality({i \in 1..BufCap : buf[t][i] # Fill})
            ELSE ret[t] < 0

\* C13: an encode past segmentation holds the ids the resource gives for
\* the text with special tokens added, never those without them.
C13_SpecialTokensAlwaysAdded ==
    \A t \in Threads :
        pc[t] = "enc_copy" =>
            /\ ids[t] = LibEncode(tok[t], arg[t].bytes, TRUE).ids
            /\ ids[t] # LibEncode(tok[t], arg[t].bytes, FALSE).ids
            /\ Len(ids[t]) = Len(arg[t].bytes) + Len(Bos(tok[t]))
                                 + Len(Eos(tok[t]))

C13_Witness ==
    \E t \in Threads :
        /\ pc[t] = "enc_copy"
        /\ tok[t] = "M1"
        /\ arg[t].bytes = TextShort
        /\ ids[t] = <<1, 5, 6, 2>>

\* C14: free always returns normally, also on a poisoned lock; where it
\* takes the lock it leaves the slot absent, and a free that follows a free
\* changes nothing.
C14_FreeIdempotentNeverFails ==
    [][\A t \in Threads :
          /\ (pc[t] = "free_lock" /\ pc'[t] # "free_lock") =>
                 /\ pc'[t] \in {"free_clear", "ret"}
                 /\ pc'[t] = "ret" =>
                        (poisoned /\ ret'[t] = 0 /\ kind'[t] = "ok"
                            /\ slot' = slot)
          /\ (pc[t] = "free_clear" /\ pc'[t] # "free_clear") =>
                 /\ pc'[t] = "ret"
                 /\ ret'[t] = 0
                 /\ kind'[t] = "ok"
                 /\ slot' = None
                 /\ lock' = 0
                 /\ (slot = None \/ hist[1] = "free") => slot' = slot]_vars

C14_Witness ==
    /\ poisoned
    /\ slot \in Models
    /\ \E t \in Threads : Returned(t, "free") /\ kind[t] = "ok"

\* C15: encode reports the first failing precondition in the order null
\* text or out_ids, text not UTF-8, slot absent; the argument checks are
\* decided in the call's first step, before the lock is taken, whatever the
\* slot holds.
C15_PreconditionOrder ==
    \A t \in Threads :
        op[t] = "encode" =>
            /\ (arg[t].null \/ outNull[t]) =>
                   (pc[t] = "ret" /\ ret[t] = EncErrNull /\ kind[t] = "null")
            /\ (~arg[t].null /\ ~outNull[t] /\ ~Utf8Valid(arg[t].bytes)) =>
                   (pc[t] = "ret" /\ ret[t] = EncErrUtf8 /\ kind[t] = "utf8")
            /\ pc[t] \in {"enc_lock", "enc_read", "enc_segment", "enc_copy"} =>
                   ValidEnc(t)
            /\ (pc[t] = "ret" /\ kind[t] = "notinit") =>
                   (ValidEnc(t) /\ ret[t] = EncErrNotInit)

C15_Witness ==
    /\ slot = None
    /\ \E t \in Threads :
          /\ Returned(t, "encode")
          /\ outNull[t]
          /\ ~Utf8Valid(arg[t].bytes)
          /\ ret[t] = EncErrNull

\* C16: encode leaves every cell at index >= min(token_count, max_len) as
\* it was, and a call that returns a negative code has modified no cell.
C16_WritesOnlyPrefix ==
    \A t \in Threads :
        Returned(t, "encode") =>
            /\ kind[t] = "ok" =>
                   \A i \in 1..BufCap :
                       i > Min(Len(ids[t]), maxLen[t]) => buf[t][i] = Fill
            /\ ret[t] < 0 => buf[t] = BlankBuf

\* C17: under fair scheduling every call that has started returns, and a
\* call that has returned (or a thread outside any call) holds no lock.
InCall(t) == pc[t] \notin {"idle", "ret"}

C17_EveryCallReturns ==
    /\ [](\A t \in Threads : ~InCall(t) => lock # t)
    /\ \A t \in Threads : InCall(t) ~> (pc[t] = "ret")

C17_Witness ==
    \E a, b \in Threads :
        /\ Returned(a, "encode")
        /\ kind[a] \in {"notinit", "segment"}
        /\ lock = b
        /\ pc[b] \in Critical

\* C18: a step that ends an initialize call with a negative code changes
\* neither the slot nor the lock state, no step of an initialize call other
\* than the install changes the slot, and the install returns 0.
C18_FailedInitLeavesSlot ==
    [][\A t \in Threads :
          (op'[t] = "initialize" /\ pc'[t] # pc[t]) =>
              /\ pc[t] # "init_install" => slot' = slot
              /\ (pc'[t] = "ret" /\ ret'[t] < 0) =>
                     /\ slot' = slot
                     /\ poisoned' = poisoned
                     /\ lock' = lock
                     /\ hist' = hist
                     /\ pc[t] # "init_install"
              /\ pc[t] = "init_install" => (pc'[t] = "ret" /\ ret'[t] = 0)]_vars

C18_Witness ==
    /\ slot \in Models
    /\ poisoned
    /\ \E t \in Threads : Returned(t, "initialize") /\ ret[t] = InitErrLock

\* C19: at most one thread is between acquiring and releasing the lock; an
\* encode holds it from its slot read to its last write, so the slot is the
\* resource it read for the whole of segmentation and copy, and the ids it
\* writes are that one resource's.
C19_EncodeHoldsLockThroughout ==
    /\ Cardinality({t \in Threads : pc[t] \in Critical}) <= 1
    /\ \A t \in Threads :
          /\ pc[t] \in Critical <=> lock = t
          /\ pc[t] \in {"enc_segment", "enc_copy"} =>
                 (tok[t] \in Models /\ slot = tok[t])
          /\ pc[t] = "enc_copy" => ids[t] = FullIds(slot, arg[t].bytes)
          /\ (Returned(t, "encode") /\ kind[t] = "ok") =>
                 buf[t] = Written(FullIds(tok[t], arg[t].bytes),
                                  Min(Len(ids[t]), maxLen[t]))

C19_Witness ==
    \E t, u \in Threads :
        /\ pc[t] = "enc_copy"
        /\ pc[u] = "init_lock"
        /\ tok[u] # slot

\* C20: an initialize that is loading, or has loaded and waits, holds no
\* lock; while it loads and the lock is free, a waiting encode or free can
\* take the lock, and an encode inside its critical section works on the
\* slot as it is, without the resource being loaded.
Loading(t) == pc[t] \in {"init_load", "init_lock"}

C20_LoadOutsideLock ==
    \A t \in Threads :
        Loading(t) =>
            /\ lock # t
            /\ \A u \in Threads :
                  /\ (lock = 0 /\ pc[u] = "enc_lock") => ENABLED EncLock(u)
                  /\ (lock = 0 /\ pc[u] = "free_lock") => ENABLED FreeLock(u)
                  /\ pc[u] \in {"enc_segment", "enc_copy"} =>
                         (lock = u /\ tok[u] = slot)

C20_Witness ==
    \E t, e \in Threads :
        /\ pc[t] = "init_load"
        /\ FromFile(arg[t].bytes).ok
        /\ pc[e] = "enc_copy"
        /\ tok[e] # FromFile(arg[t].bytes).t

====
